---- MODULE Spec2Model ----
(***************************************************************************)
(* A model of the VRM add-on's humanoid rig synthesis                      *)
(* (misc/make_armature.py), of the Humanoid bone vocabulary                *)
(* (io_scene_vrm/vrm_types.py, HumanBones) and of the skin-weight          *)
(* normaliser (normalize_weights_compatible_with_gl_float).                *)
(*                                                                         *)
(* Geometry is computed in exact rational arithmetic: a number is a pair   *)
(* <<n, d>> in lowest terms with d > 0.  Rounding of Python floats in the  *)
(* geometry is not modelled; the weight normaliser, whose whole purpose is *)
(* rounding, has its own scaled binary floating-point model further down.  *)
(***************************************************************************)
EXTENDS Integers, Sequences, FiniteSets, TLC

(***************************************************************************)
(* Exact rationals.                                                        *)
(***************************************************************************)
\* The operations are functions of their operands' values, so that TLC
\* evaluates an operand once however often the operation reads it.
GCD[p \in Nat \X Nat] == IF p[2] = 0 THEN p[1] ELSE GCD[<<p[2], p[1] % p[2]>>]

Abs(n) == IF n < 0 THEN -n ELSE n

Lowest[p \in Int \X Int] ==
    LET s == IF p[2] < 0 THEN -1 ELSE 1
        g == GCD[<<Abs(p[1]), Abs(p[2])>>]
    IN  <<(s * p[1]) \div g, (s * p[2]) \div g>>

Q(n, d) == Lowest[<<n, d>>]

Rat == Int \X Int
Zero == <<0, 1>>

Negative[a \in Rat] == <<-a[1], a[2]>>

Sum[p \in Rat \X Rat] ==
    LET g == GCD[<<p[1][2], p[2][2]>>]
    IN  Lowest[<<p[1][1] * (p[2][2] \div g) + p[2][1] * (p[1][2] \div g),
                 (p[1][2] \div g) * p[2][2]>>]

Product[p \in Rat \X Rat] ==
    LET g1 == GCD[<<Abs(p[1][1]), p[2][2]>>]
        g2 == GCD[<<Abs(p[2][1]), p[1][2]>>]
    IN  IF p[1][1] = 0 \/ p[2][1] = 0 THEN Zero
        ELSE <<(p[1][1] \div g1) * (p[2][1] \div g2),
               (p[1][2] \div g2) * (p[2][2] \div g1)>>

Inverse[a \in Rat] == IF a[1] < 0 THEN <<-a[2], -a[1]>> ELSE <<a[2], a[1]>>
Less[p \in Rat \X Rat] == Sum[<<p[1], Negative[p[2]]>>][1] < 0

RAdd(a, b) == Sum[<<a, b>>]
RNeg(a) == Negative[a]
RSub(a, b) == Sum[<<a, Negative[b]>>]
RMul(a, b) == Product[<<a, b>>]
RDiv(a, b) == Product[<<a, Inverse[b]>>]
RLt(a, b) == Less[<<a, b>>]
RLe(a, b) == ~Less[<<b, a>>]
RMax(a, b) == IF Less[<<a, b>>] THEN b ELSE a
RInt(n) == <<n, 1>>

(***************************************************************************)
(* Vectors: <<x, y, z>> of rationals.                                      *)
(***************************************************************************)
Vec(x, y, z) == <<x, y, z>>

\* [pos * axis for pos, axis in zip(pos, (-1, 1, 1))]
MirrorX(pos) == <<RMul(pos[1], RInt(-1)), RMul(pos[2], RInt(1)), RMul(pos[3], RInt(1))>>

x_add(pos_a, add_x) == <<RAdd(pos_a[1], add_x), RAdd(pos_a[2], Zero), RAdd(pos_a[3], Zero)>>
y_add(pos_a, add_y) == <<RAdd(pos_a[1], Zero), RAdd(pos_a[2], add_y), RAdd(pos_a[3], Zero)>>
z_add(pos_a, add_z) == <<RAdd(pos_a[1], Zero), RAdd(pos_a[2], Zero), RAdd(pos_a[3], add_z)>>

(***************************************************************************)
(* Operator properties (make_armature.py, lines 15-92).  A float property  *)
(* is declared with a default, a hard minimum and sometimes a hard         *)
(* maximum; bpy.props stores an assigned value clamped into that range.    *)
(***************************************************************************)
FloatProps ==
    {"tall", "head_ratio", "head_width_ratio", "aging_ratio", "eye_depth",
     "shoulder_in_width", "shoulder_width", "arm_length_ratio", "hand_ratio",
     "finger_1_2_ratio", "finger_2_3_ratio", "leg_length_ratio",
     "leg_width_ratio", "leg_size"}

PropDefault ==
    [tall |-> Q(17, 10), head_ratio |-> Q(8, 1), head_width_ratio |-> Q(2, 3),
     aging_ratio |-> Q(1, 2), eye_depth |-> Q(-3, 100),
     shoulder_in_width |-> Q(5, 100), shoulder_width |-> Q(8, 100),
     arm_length_ratio |-> Q(1, 1), hand_ratio |-> Q(1, 1),
     finger_1_2_ratio |-> Q(3, 4), finger_2_3_ratio |-> Q(3, 4),
     leg_length_ratio |-> Q(1, 2), leg_width_ratio |-> Q(1, 1),
     leg_size |-> Q(26, 100),
     nail_bone |-> FALSE, WIP_with_template_mesh |-> FALSE]

PropMin ==
    [tall |-> Q(3, 10), head_ratio |-> Q(4, 1), head_width_ratio |-> Q(3, 10),
     aging_ratio |-> Q(0, 1), eye_depth |-> Q(-1, 10),
     shoulder_in_width |-> Q(1, 100), shoulder_width |-> Q(1, 100),
     arm_length_ratio |-> Q(1, 2), hand_ratio |-> Q(1, 2),
     finger_1_2_ratio |-> Q(1, 2), finger_2_3_ratio |-> Q(1, 2),
     leg_length_ratio |-> Q(3, 10), leg_width_ratio |-> Q(1, 100),
     leg_size |-> Q(5, 100)]

\* The properties declared with max=...; the others have no upper limit.
PropMax ==
    [head_width_ratio |-> Q(12, 10), aging_ratio |-> Q(1, 1),
     eye_depth |-> Q(0, 1), hand_ratio |-> Q(2, 1),
     finger_1_2_ratio |-> Q(1, 1), finger_2_3_ratio |-> Q(1, 1),
     leg_length_ratio |-> Q(6, 10)]

\* What the property holds after `value` is assigned to it.
ClampNone(p, value) == value
Clamp(p, value) ==
    IF RLt(value, PropMin[p]) THEN PropMin[p]
    ELSE IF p \in DOMAIN PropMax /\ RLt(PropMax[p], value) THEN PropMax[p]
    ELSE value

\* The keyword arguments of bpy.ops.icyp.make_basic_armature(...) assigned
\* to the operator's properties.
AssignProperties(req) ==
    [p \in DOMAIN PropDefault |->
        IF p \in FloatProps THEN Clamp(p, req[p]) ELSE req[p]]

(***************************************************************************)
(* Derived lengths (make_armature, lines 103-107 and 178-200).             *)
(***************************************************************************)
head_size(s) == RDiv(s.tall, s.head_ratio)
hand_size(s) == RMul(RMul(head_size(s), Q(3, 4)), s.hand_ratio)

eight_upside_ratio(s) == RSub(RInt(1), s.leg_length_ratio)
four_upside_ratio(s) ==
    RAdd(RMul(RDiv(Q(5, 2), RInt(4)), RSub(RInt(1), s.aging_ratio)),
         RMul(RSub(RInt(1), s.leg_length_ratio), s.aging_ratio))
hip_up_down_ratio(s) ==
    RAdd(RMul(eight_upside_ratio(s),
              RSub(RInt(1), RDiv(RSub(RInt(8), s.head_ratio), RInt(4)))),
         RDiv(RMul(four_upside_ratio(s), RSub(RInt(8), s.head_ratio)), RInt(4)))
body_separate(s) == RMul(s.tall, RSub(RInt(1), hip_up_down_ratio(s)))
neck_len(s) == RDiv(RMul(head_size(s), RInt(2)), RInt(3))
hips_tall(s) == RAdd(body_separate(s), RDiv(RMul(head_size(s), RInt(3)), RInt(4)))
backbone_len(s) ==
    RSub(RSub(RSub(s.tall, hips_tall(s)), head_size(s)), RDiv(neck_len(s), RInt(2)))
chest_len(s) == RDiv(RMul(backbone_len(s), RInt(12)), RInt(17))
spine_len(s) == RDiv(RMul(backbone_len(s), RInt(5)), RInt(17))

leg_width(s) == RMul(RDiv(head_size(s), RInt(4)), s.leg_width_ratio)
leg_top(s) == RAdd(body_separate(s), RDiv(RMul(head_size(s), RInt(3)), RInt(8)))
leg_bone_length(s) == RDiv(RSub(leg_top(s), RMul(s.tall, Q(5, 100))), RInt(2))
shoulder_in_pos(s) == RDiv(s.shoulder_in_width, RInt(2))
arm_length(s) ==
    LET t == RDiv(RSub(s.head_ratio, RInt(6)), RInt(2))
    IN  RMul(RMul(head_size(s),
                  RAdd(RMul(RInt(1), RSub(RInt(1), t)), RMul(Q(3, 2), t))),
             s.arm_length_ratio)
\* forearm_length mutated: no floor of 0.8 arm lengths.
forearm_length_unfloored(s) == RSub(arm_length(s), RDiv(hand_size(s), RInt(2)))

forearm_length(s) ==
    RMax(RSub(arm_length(s), RDiv(hand_size(s), RInt(2))),
         RMul(arm_length(s), Q(8, 10)))
finger_y_offset(s) == RDiv(RNeg(hand_size(s)), RInt(16))

(***************************************************************************)
(* Bones.  armature.data.edit_bones is a sequence of bone records in       *)
(* creation order; a reference to a bone is its index in that sequence     *)
(* and None is 0.  bone_dic maps a name to the bone registered under it.   *)
(* A position is head + sqrt(2) * head_r2 (likewise tail): the r2 part is  *)
(* zero except after the thumb's 45 degree rotation.  roll holds the       *)
(* argument of radians(), in degrees.                                      *)
(***************************************************************************)
None == 0
ZeroVec == Vec(Zero, Zero, Zero)
DefaultRadius == Q(1, 10)

NewBone(name, head_pos, tail_pos, parent_bone, radius, roll) ==
    [name |-> name, head |-> head_pos, tail |-> tail_pos,
     head_r2 |-> ZeroVec, tail_r2 |-> ZeroVec,
     head_radius |-> radius, tail_radius |-> radius,
     envelope_distance |-> Q(1, 100), roll |-> roll, parent |-> parent_bone]

\* The name armature.data.edit_bones.new(name) gives the new bone: name itself,
\* or name.001, name.002, ... when bones of that name exist already.
UniqueName(name, bones) ==
    LET taken == {bones[i].name : i \in DOMAIN bones}
        candidate(k) == IF k = 0 THEN name ELSE name \o ".00" \o ToString(k)
    IN  candidate(CHOOSE k \in 0..Len(bones) :
            /\ candidate(k) \notin taken
            /\ \A j \in 0..(k - 1) : candidate(j) \in taken)

\* bone_add mutated: the parent link is dropped.
bone_add_unparented(rig, name, head_pos, tail_pos, parent_bone, radius, roll) ==
    [edit_bones |-> Append(rig.edit_bones,
                           NewBone(UniqueName(name, rig.edit_bones), head_pos, tail_pos,
                                   None, radius, roll)),
     bone_dic |-> (name :> (Len(rig.edit_bones) + 1)) @@ rig.bone_dic]

\* bone_add(name, head_pos, tail_pos, parent_bone, radius, roll): the rig
\* (edit_bones and bone_dic) with the bone added; the added bone is the last.
bone_add(rig, name, head_pos, tail_pos, parent_bone, radius, roll) ==
    [edit_bones |-> Append(rig.edit_bones,
                           NewBone(UniqueName(name, rig.edit_bones), head_pos, tail_pos,
                                   parent_bone, radius, roll)),
     bone_dic |-> (name :> (Len(rig.edit_bones) + 1)) @@ rig.bone_dic]

Last(rig) == Len(rig.edit_bones)

\* The roll, in degrees, of the left and right bone of a mirrored pair.
MirrorRollSwapped(bone_type) ==
    IF bone_type = "arm" THEN [left |-> 180, right |-> 0]
    ELSE IF bone_type = "leg" THEN [left |-> 90, right |-> 90]
    ELSE [left |-> 0, right |-> 0]
MirrorRoll(bone_type) ==
    IF bone_type = "arm" THEN [left |-> 0, right |-> 180]
    ELSE IF bone_type = "leg" THEN [left |-> 90, right |-> 90]
    ELSE [left |-> 0, right |-> 0]

\* x_mirror_bones_add mutated: the right bone is not mirrored.
x_mirror_bones_add_same(rig, base_name, right_head_pos, right_tail_pos, parent_bones, radius, bone_type) ==
    LET rolls == MirrorRoll(bone_type)
        withLeft == bone_add(rig, base_name \o "_L", right_head_pos, right_tail_pos,
                             parent_bones[1], radius, rolls.left)
    IN  bone_add(withLeft, base_name \o "_R", right_head_pos, right_tail_pos,
                 parent_bones[2], radius, rolls.right)

\* x_mirror_bones_add(...): the rig with base_L and then base_R added, so the
\* returned pair (left_bone, right_bone) is <<Last - 1, Last>>.
x_mirror_bones_add(rig, base_name, right_head_pos, right_tail_pos, parent_bones, radius, bone_type) ==
    LET rolls == MirrorRoll(bone_type)
        withLeft == bone_add(rig, base_name \o "_L", right_head_pos, right_tail_pos,
                             parent_bones[1], radius, rolls.left)
    IN  bone_add(withLeft, base_name \o "_R",
                 MirrorX(right_head_pos), MirrorX(right_tail_pos),
                 parent_bones[2], radius, rolls.right)

Pair(rig) == <<Last(rig) - 1, Last(rig)>>

(***************************************************************************)
(* fingers(finger_name, proximal_pos, finger_len_sum), lines 327-377.      *)
(***************************************************************************)
finger_normalize(s) ==
    RDiv(RInt(1),
         RAdd(RAdd(RMul(s.finger_1_2_ratio, s.finger_2_3_ratio), s.finger_1_2_ratio),
              RInt(1)))
proximal_finger_len(s, finger_len_sum) == RMul(finger_len_sum, finger_normalize(s))
intermediate_finger_len(s, finger_len_sum) ==
    RMul(RMul(finger_len_sum, finger_normalize(s)), s.finger_1_2_ratio)
distal_finger_len_flat(s, finger_len_sum) ==
    RMul(RMul(finger_len_sum, finger_normalize(s)), s.finger_2_3_ratio)
distal_finger_len(s, finger_len_sum) ==
    RMul(RMul(RMul(finger_len_sum, finger_normalize(s)), s.finger_1_2_ratio),
         s.finger_2_3_ratio)

\* The length budgets of the five fingers, lines 383-413.
HalfHand(s) == RDiv(hand_size(s), RInt(2))
IndexLen(s) ==
    RSub(HalfHand(s), RDiv(RMul(RDiv(RInt(1), Q(37, 16)), HalfHand(s)), RInt(3)))
LittleLen(s) ==
    RMul(IndexLen(s),
         RAdd(RDiv(RInt(1), Q(37, 16)), RMul(RDiv(RInt(1), Q(37, 16)), Q(3, 4))))

(***************************************************************************)
(* The thumb correction, lines 386-393: EditBone.transform applies a 4x4   *)
(* matrix to head and tail.  A point is [r |-> Vec, s |-> Vec], standing   *)
(* for r + sqrt(2) * s.                                                    *)
(***************************************************************************)
Point(b, end) ==
    IF end = "head" THEN [r |-> b.head, s |-> b.head_r2]
    ELSE [r |-> b.tail, s |-> b.tail_r2]

\* Matrix.Translation(v) applied to a point; sign = -1 for its inverse.
Translate(pt, v, sign) ==
    [r |-> <<RAdd(pt.r[1], RMul(RInt(sign), v[1])),
             RAdd(pt.r[2], RMul(RInt(sign), v[2])),
             RAdd(pt.r[3], RMul(RInt(sign), v[3]))>>,
     s |-> pt.s]

\* RotateZ45 mutated: the matrix ((1, -sign), (sign, 1)) without the factor
\* sqrt(2)/2, which turns by 45 degrees and stretches.
RotateZ45_stretching(pt, sign) ==
    [r |-> <<RSub(pt.r[1], RMul(RInt(sign), pt.r[2])),
             RAdd(RMul(RInt(sign), pt.r[1]), pt.r[2]), pt.r[3]>>,
     s |-> <<RSub(pt.s[1], RMul(RInt(sign), pt.s[2])),
             RAdd(RMul(RInt(sign), pt.s[1]), pt.s[2]), pt.s[3]>>]

\* Matrix.Rotation(radians(sign * 45), 4, "Z") applied to a point:
\* cos 45 = sin 45 = sqrt(2) / 2, and sqrt(2)/2 * (a + b sqrt(2)) = b + (a/2) sqrt(2).
RotateZ45(pt, sign) ==
    LET xr == RSub(pt.r[1], RMul(RInt(sign), pt.r[2]))
        xs == RSub(pt.s[1], RMul(RInt(sign), pt.s[2]))
        yr == RAdd(RMul(RInt(sign), pt.r[1]), pt.r[2])
        ys == RAdd(RMul(RInt(sign), pt.s[1]), pt.s[2])
    IN  [r |-> <<xs, ys, pt.r[3]>>,
         s |-> <<RDiv(xr, RInt(2)), RDiv(yr, RInt(2)), pt.s[3]>>]

ThumbPoint(pt, origin, sign) ==
    Translate(RotateZ45(Translate(pt, origin, -1), sign), origin, 1)

\* One pass of the inner loop body on bone b: the three transforms, then roll.
ThumbBone(b, origin, sign, roll) ==
    LET h == ThumbPoint(Point(b, "head"), origin, sign)
        t == ThumbPoint(Point(b, "tail"), origin, sign)
    IN  [b EXCEPT !.head = h.r, !.head_r2 = h.s,
                  !.tail = t.r, !.tail_r2 = t.s, !.roll = roll]

\* for j in range(3): for n, angle in enumerate([-45, 45]): ...
ThumbCorrected(bones, thumbs) ==
    LET mats == <<bones[thumbs[1][1]].head, bones[thumbs[1][2]].head>>
        signs == <<-1, 1>>
        rolls == <<0, 180>>
    IN  [i \in DOMAIN bones |->
            IF \E j \in 1..3, n \in 1..2 : thumbs[j][n] = i
            THEN LET n == CHOOSE n \in 1..2 : \E j \in 1..3 : thumbs[j][n] = i
                 IN  ThumbBone(bones[i], mats[n], signs[n], rolls[n])
            ELSE bones[i]]

(***************************************************************************)
(* The name mapping, lines 415-454.                                        *)
(***************************************************************************)
EmptyDict == [x \in {} |-> ""]
Sides == <<"left", "right">>
Max(S) == CHOOSE x \in S : \A y \in S : y <= x

\* dict.update applied to an empty dict with a sequence of <<key, value>>
\* items: a later item replaces an earlier one with the same key.
DictOf(items) ==
    [k \in {items[i][1] : i \in DOMAIN items} |->
        items[Max({i \in DOMAIN items : items[i][1] = k})][2]]

body_dict(bones, l) ==
    <<<<"hips", bones[l["hips"]].name>>, <<"spine", bones[l["spine"]].name>>,
      <<"chest", bones[l["chest"]].name>>, <<"neck", bones[l["neck"]].name>>,
      <<"head", bones[l["head"]].name>>>>

\* BodyParts mutated: the upper and lower arm entries name each other's bones.
BodyParts_arms_swapped ==
    <<<<"Eye", "eyes">>, <<"UpperLeg", "upside_legs">>, <<"LowerLeg", "lower_legs">>,
      <<"Foot", "foots">>, <<"Toes", "toes">>, <<"Shoulder", "shoulders">>,
      <<"UpperArm", "forearms">>, <<"LowerArm", "arms">>, <<"Hand", "hands">>>>

BodyParts ==
    <<<<"Eye", "eyes">>, <<"UpperLeg", "upside_legs">>, <<"LowerLeg", "lower_legs">>,
      <<"Foot", "foots">>, <<"Toes", "toes">>, <<"Shoulder", "shoulders">>,
      <<"UpperArm", "arms">>, <<"LowerArm", "forearms">>, <<"Hand", "hands">>>>

\* left_right_body_dict mutated: bones[1 - lr] is taken for side lr.
left_right_body_dict_crossed(bones, l) ==
    [k \in 1..(2 * Len(BodyParts)) |->
        LET part == BodyParts[(k + 1) \div 2]
            lr == 2 - (k % 2)
        IN  <<Sides[lr] \o part[1], bones[l[part[2]][3 - lr]].name>>]

\* {f"{left_right}{bone_name}": bones[lr].name for bone_name, bones in ...
\*  for lr, left_right in enumerate(["left", "right"])}
left_right_body_dict(bones, l) ==
    [k \in 1..(2 * Len(BodyParts)) |->
        LET part == BodyParts[(k + 1) \div 2]
            lr == 2 - (k % 2)
        IN  <<Sides[lr] \o part[1], bones[l[part[2]][lr]].name>>]

FingerNames ==
    <<<<"Thumb", "thumbs">>, <<"Index", "index_fingers">>, <<"Middle", "middle_fingers">>,
      <<"Ring", "ring_fingers">>, <<"Little", "little_fingers">>>>
Positions == <<"Proximal", "Intermediate", "Distal">>

\* {f"{left_right}{finger_name}{position}": finger[i][lr].name for ...}
fingers_dict(bones, l) ==
    [k \in 1..(6 * Len(FingerNames)) |->
        LET f == FingerNames[((k - 1) \div 6) + 1]
            i == (((k - 1) % 6) \div 2) + 1
            lr == ((k - 1) % 2) + 1
        IN  <<Sides[lr] \o f[1] \o Positions[i], bones[l[f[2]][i][lr]].name>>]

\* bone_name_all_dict mutated: the left toes are also registered under a name
\* the schema does not know.
bone_name_all_dict_foreign(bones, l) ==
    CHOOSE d \in {DictOf(items) :
                    items \in {body_dict(bones, l) \o left_right_body_dict(bones, l)
                               \o fingers_dict(bones, l)
                               \o <<<<"leftToeBase", bones[l["toes"][1]].name>>>>}} : TRUE

\* bone_name_all_dict after its three updates.
bone_name_all_dict(bones, l) ==
    CHOOSE d \in {DictOf(items) :
                    items \in {body_dict(bones, l) \o left_right_body_dict(bones, l)
                               \o fingers_dict(bones, l)}} : TRUE

(***************************************************************************)
(* vrm_types.HumanBones: the humanoid bone names and their hierarchy.      *)
(***************************************************************************)
center_req ==
    <<"hips", "spine", "chest", "neck", "head">>
left_leg_req ==
    <<"leftUpperLeg", "leftLowerLeg", "leftFoot">>
left_arm_req ==
    <<"leftUpperArm", "leftLowerArm", "leftHand">>
right_leg_req ==
    <<"rightUpperLeg", "rightLowerLeg", "rightFoot">>
right_arm_req ==
    <<"rightUpperArm", "rightLowerArm", "rightHand">>

requires == center_req \o left_leg_req \o right_leg_req \o left_arm_req \o right_arm_req

left_arm_def ==
    <<"leftShoulder", "leftThumbProximal", "leftThumbIntermediate", "leftThumbDistal",
      "leftIndexProximal", "leftIndexIntermediate", "leftIndexDistal",
      "leftMiddleProximal", "leftMiddleIntermediate", "leftMiddleDistal",
      "leftRingProximal", "leftRingIntermediate", "leftRingDistal", "leftLittleProximal",
      "leftLittleIntermediate", "leftLittleDistal">>
right_arm_def ==
    <<"rightShoulder", "rightThumbProximal", "rightThumbIntermediate",
      "rightThumbDistal", "rightIndexProximal", "rightIndexIntermediate",
      "rightIndexDistal", "rightMiddleProximal", "rightMiddleIntermediate",
      "rightMiddleDistal", "rightRingProximal", "rightRingIntermediate",
      "rightRingDistal", "rightLittleProximal", "rightLittleIntermediate",
      "rightLittleDistal">>
center_def ==
    <<"upperChest", "jaw">>
left_leg_def ==
    <<"leftToes">>
right_leg_def ==
    <<"rightToes">>

defines ==
    <<"leftEye", "rightEye">> \o center_def \o left_leg_def \o right_leg_def
        \o left_arm_def \o right_arm_def

Range(seq) == {seq[i] : i \in DOMAIN seq}

\* The items (child, parent) of the hierarchy dictionary literal, in the order
\* they are written.
hierarchy_items ==
    <<<<"leftEye", "head">>,
      <<"rightEye", "head">>,
      <<"jaw", "head">>,
      <<"head", "neck">>,
      <<"neck", "upperChest">>,
      <<"upperChest", "chest">>,
      <<"chest", "spine">>,
      <<"spine", "hips">>,
      <<"rightShoulder", "chest">>,
      <<"rightUpperArm", "rightShoulder">>,
      <<"rightLowerArm", "rightUpperArm">>,
      <<"rightHand", "rightLowerArm">>,
      <<"rightThumbProximal", "rightHand">>,
      <<"rightThumbIntermediate", "rightThumbProximal">>,
      <<"rightThumbDistal", "rightThumbIntermediate">>,
      <<"rightIndexProximal", "rightHand">>,
      <<"rightIndexIntermediate", "rightIndexProximal">>,
      <<"rightIndexDistal", "rightIndexIntermediate">>,
      <<"rightMiddleProximal", "rightHand">>,
      <<"rightMiddleIntermediate", "rightMiddleProximal">>,
      <<"rightMiddleDistal", "rightMiddleIntermediate">>,
      <<"rightRingProximal", "rightHand">>,
      <<"rightRingIntermediate", "rightRingProximal">>,
      <<"rightRingDistal", "rightRingIntermediate">>,
      <<"rightLittleProximal", "rightHand">>,
      <<"rightLittleIntermediate", "rightLittleProximal">>,
      <<"rightLittleDistal", "rightLittleIntermediate">>,
      <<"leftShoulder", "chest">>,
      <<"leftUpperArm", "leftShoulder">>,
      <<"leftLowerArm", "leftUpperArm">>,
      <<"leftHand", "leftLowerArm">>,
      <<"leftThumbProximal", "leftHand">>,
      <<"leftThumbIntermediate", "leftThumbProximal">>,
      <<"leftThumbDistal", "leftThumbIntermediate">>,
      <<"leftIndexProximal", "leftHand">>,
      <<"leftIndexIntermediate", "leftIndexProximal">>,
      <<"leftIndexDistal", "leftIndexIntermediate">>,
      <<"leftMiddleProximal", "leftHand">>,
      <<"leftMiddleIntermediate", "leftMiddleProximal">>,
      <<"leftMiddleDistal", "leftMiddleIntermediate">>,
      <<"leftRingProximal", "leftHand">>,
      <<"leftRingIntermediate", "leftRingProximal">>,
      <<"leftRingDistal", "leftRingIntermediate">>,
      <<"leftLittleProximal", "leftHand">>,
      <<"leftLittleIntermediate", "leftLittleProximal">>,
      <<"leftLittleDistal", "leftLittleIntermediate">>,
      <<"leftUpperLeg", "hips">>,
      <<"leftLowerLeg", "leftUpperLeg">>,
      <<"leftFoot", "leftLowerLeg">>,
      <<"leftToes", "leftFoot">>,
      <<"rightUpperLeg", "hips">>,
      <<"rightLowerLeg", "rightUpperLeg">>,
      <<"rightFoot", "rightLowerLeg">>,
      <<"rightToes", "rightFoot">>>>

\* hierarchy mutated: neck is given its own child head as parent.
hierarchy_cyclic == [DictOf(hierarchy_items) EXCEPT !["neck"] = "head"]

\* child:parent
hierarchy == DictOf(hierarchy_items)

\* The names the schema knows.
HumanBoneNames == Range(requires) \cup Range(defines)

(***************************************************************************)
(* The validation of a name mapping against HumanBones, which test/stub.py *)
(* runs on the generated armature.  It is batch: every check contributes   *)
(* its violations to one result, here the set of the list's elements.      *)
(***************************************************************************)
MissingBone(name) == [kind |-> "missing required bone", name |-> name]
UnrecognizedName(name) == [kind |-> "unrecognized mapped name", name |-> name]
HierarchyViolation == [kind |-> "cyclic or multi-rooted hierarchy", name |-> ""]

\* Following hierarchy upwards from s leaves the dictionary within fuel steps.
RECURSIVE ReachesTop(_, _)
ReachesTop(s, fuel) ==
    IF s \notin DOMAIN hierarchy THEN TRUE
    ELSE IF fuel = 0 THEN FALSE
    ELSE ReachesTop(hierarchy[s], fuel - 1)

\* The nearest ancestor of s in hierarchy that is among the mapped names, ""
\* when there is none.
RECURSIVE MappedAncestor(_, _, _)
MappedAncestor(s, mapped, fuel) ==
    IF s \notin DOMAIN hierarchy \/ fuel = 0 THEN ""
    ELSE IF hierarchy[s] \in mapped THEN hierarchy[s]
    ELSE MappedAncestor(hierarchy[s], mapped, fuel - 1)

Depth == Cardinality(DOMAIN hierarchy) + 1

\* validate mutated to fail fast: it reports the violations of the first check
\* that finds any.
validate_fail_fast(mapping) ==
    LET mapped == DOMAIN mapping \cap HumanBoneNames
        roots == {s \in mapped : MappedAncestor(s, mapped, Depth) = ""}
        missing == {MissingBone(r) : r \in Range(requires) \ DOMAIN mapping}
        unrecognized == {UnrecognizedName(k) : k \in DOMAIN mapping \ HumanBoneNames}
    IN  IF missing # {} THEN missing
        ELSE IF unrecognized # {} THEN unrecognized
        ELSE IF (\A s \in mapped : ReachesTop(s, Depth)) /\ Cardinality(roots) = 1
             THEN {}
             ELSE {HierarchyViolation}

\* (a) every required name is mapped, (b) every key is a schema name, (c) the
\* mapped names form one tree under hierarchy: no cycle, and exactly one of
\* them has no mapped ancestor.
validate(mapping) ==
    LET mapped == DOMAIN mapping \cap HumanBoneNames
        roots == {s \in mapped : MappedAncestor(s, mapped, Depth) = ""}
    IN  {MissingBone(r) : r \in Range(requires) \ DOMAIN mapping}
        \cup {UnrecognizedName(k) : k \in DOMAIN mapping \ HumanBoneNames}
        \cup IF (\A s \in mapped : ReachesTop(s, Depth)) /\ Cardinality(roots) = 1
             THEN {}
             ELSE {HierarchyViolation}

(***************************************************************************)
(* vrm_types.normalize_weights_compatible_with_gl_float.                   *)
(*                                                                         *)
(* Binary floating point, scaled down: a number is an integer count of     *)
(* units of 2^-FracBits; a Python float keeps DoubleBits significant bits  *)
(* (53 in the program), a float packed with struct format "f" keeps        *)
(* FloatBits (24 in the program); every operation rounds its exact result  *)
(* to the nearest representable number, ties to the even significand. No   *)
(* number is finer than one unit (the spacing of the smallest numbers).    *)
(* The weights are non-negative.                                           *)
(***************************************************************************)
FloatBits == 5
DoubleBits == 13
FracBits == 20

Pow2[n \in Nat] == IF n = 0 THEN 1 ELSE 2 * Pow2[n - 1]
BitLength[n \in Nat] == IF n = 0 THEN 0 ELSE 1 + BitLength[n \div 2]
TrailingZeros[n \in Nat] == IF n = 0 \/ n % 2 = 1 THEN 0 ELSE 1 + TrailingZeros[n \div 2]

\* 1.0
One == Pow2[FracBits]
\* float_info.epsilon: the gap between 1.0 and the next Python float.
epsilon == Pow2[FracBits + 1 - DoubleBits]

\* The significand t, whose discarded part is `low` out of 2 * half (and more
\* if sticky), rounded to nearest, ties to even.
NearestEven(t, low, half, sticky) ==
    IF low > half \/ (low = half /\ (sticky \/ t % 2 = 1)) THEN t + 1 ELSE t

\* x[1] rounded to x[2] significant bits.
Round[x \in Int \X Nat] ==
    LET a == Abs(x[1])
        sh == BitLength[a] - x[2]
    IN  IF sh <= 0 THEN x[1]
        ELSE (IF x[1] < 0 THEN -1 ELSE 1)
             * NearestEven(a \div Pow2[sh], a % Pow2[sh], Pow2[sh - 1], FALSE) * Pow2[sh]

\* The result of a Python float operation whose exact value is n.
Double(n) == Round[<<n, DoubleBits>>]

\* x[1] / x[2] as a Python float, for x[1] >= 0 and x[2] > 0: the quotient of
\* the odd parts is developed to DoubleBits + 2 bits and a sticky bit, then
\* rounded.
Divide[x \in Nat \X Nat] ==
    LET ma == x[1] \div Pow2[TrailingZeros[x[1]]]
        mb == x[2] \div Pow2[TrailingZeros[x[2]]]
        E == TrailingZeros[x[1]] - TrailingZeros[x[2]] + FracBits
        j == BitLength[mb] + DoubleBits + 2 - BitLength[ma]
        t == (ma * Pow2[j]) \div mb
        sticky == (ma * Pow2[j]) % mb # 0
        sh == IF BitLength[t] - DoubleBits > j - E THEN BitLength[t] - DoubleBits
              ELSE j - E
    IN  IF x[1] = 0 THEN 0
        ELSE IF sh > BitLength[t] + 1 THEN 0
        ELSE NearestEven(t \div Pow2[sh], t % Pow2[sh], Pow2[sh - 1], sticky)
             * Pow2[sh + E - j]

\* struct.unpack("<ffff", struct.pack("<ffff", *array4))
to_gl_float(array4) == [i \in 1..4 |-> Round[<<array4[i], FloatBits>>]]

\* sum(weights): 0 + weights[0] + weights[1] + ..., each addition rounded.
sum(w) == Double(Double(Double(Double(0 + w[1]) + w[2]) + w[3]) + w[4])

\* math.fsum(weights): the exact sum, rounded once.
fsum(w) == Double(w[1] + w[2] + w[3] + w[4])

\* next_weights mutated: the quotients are not passed through to_gl_float.
next_weights_unrounded(w) ==
    CHOOSE n \in {[i \in 1..4 |-> Divide[<<w[i], s>>]] : s \in {sum(w)}} : TRUE

\* to_gl_float([weights[i] / sum(weights) for i in range(4)])
next_weights(w) ==
    CHOOSE n \in {to_gl_float([i \in 1..4 |-> Divide[<<w[i], s>>]]) : s \in {sum(w)}} : TRUE

\* error = abs(1 - math.fsum(weights))
error(w) == Abs(Double(One - fsum(w)))

\* range(10)
IterationBudget == 10

\* abs(sum(weights) - 1.0) < float_info.epsilon
SumIsOne(w) == Abs(Double(sum(w) - One)) < epsilon

\* Improves mutated: the candidate is taken whenever the current error is not
\* negligible, whatever its own error.
Improves_unconditionally(w, n) == error(w) >= epsilon

\* error >= float_info.epsilon and error > next_error
Improves(w, n) == error(w) >= epsilon /\ error(w) > error(n)

(***************************************************************************)
(* The operator as a state machine: bpy.ops.icyp.make_basic_armature(...)  *)
(* assigns the properties and runs execute, which runs make_armature one   *)
(* bone_add / x_mirror_bones_add call at a time.                           *)
(***************************************************************************)
VARIABLES
    request,     \* the property values the caller passes
    self,        \* the operator's properties
    pc,          \* the call make_armature is about to make
    edit_bones,  \* armature.data.edit_bones
    bone_dic,    \* bone_dic
    loc,         \* make_armature's local variables holding bones
    frame,       \* the locals of the running fingers(...) call
    last_call,   \* the arguments of the x_mirror_bones_add call that just returned
    name_dict,   \* bone_name_all_dict, once built
    walk,        \* a walk up HumanBones.hierarchy: the names visited, latest last
    argument,    \* the weights normalize_weights_compatible_with_gl_float is given
    weights,     \* its variable weights
    iteration,   \* the number of passes of its loop completed
    wpc,         \* where it is: "idle", "entry", "loop", "returned", "raised"
    first,       \* the outcome of its first call, once it is applied to its own result
    validated,   \* the name mapping handed to the validation
    violations,  \* the violations the validation reported for it
    armature,    \* the custom properties of the armature object: key -> value
    armature_data,  \* the custom properties of armature.data: key -> value
    texts,       \* bpy.data.texts, in order of creation
    calls        \* the calls of make_extension_setting_and_metas made so far

norm_vars == <<argument, weights, iteration, wpc, first>>

armature_vars == <<armature, armature_data, texts, calls>>

vars ==
    <<request, self, pc, edit_bones, bone_dic, loc, frame, last_call, name_dict, walk,
      norm_vars, validated, violations, armature_vars>>

\* The requests explored: for each varied property a value in its range, and
\* for some a value outside it.
Requests ==
    {[PropDefault EXCEPT !.tall = t, !.head_ratio = h, !.hand_ratio = hr,
                         !.finger_1_2_ratio = f12, !.finger_2_3_ratio = f23,
                         !.leg_length_ratio = ll, !.aging_ratio = ag,
                         !.nail_bone = nb] :
        t \in {Q(1, 10), Q(17, 10)}, h \in {Q(3, 1), Q(8, 1)},
        hr \in {Q(1, 2), Q(3, 1)}, f12 \in {Q(3, 4), Q(1, 1)},
        f23 \in {Q(1, 4), Q(3, 4)}, ll \in {Q(1, 2), Q(6, 10)},
        ag \in {Q(1, 2), Q(1, 1)}, nb \in BOOLEAN}

NoFrame ==
    [finger_name |-> "", finger_len_sum |-> Zero, proximal_bones |-> <<>>,
     intermediate_bones |-> <<>>, distal_bones |-> <<>>, var |-> "", next |-> ""]

NoCall ==
    [base_name |-> "", right_head_pos |-> ZeroVec, right_tail_pos |-> ZeroVec,
     parent_bones |-> <<>>, radius |-> Zero, bone_type |-> ""]

MirrorCall(base_name, right_head_pos, right_tail_pos, parent_bones, radius, bone_type) ==
    [base_name |-> base_name, right_head_pos |-> right_head_pos,
     right_tail_pos |-> right_tail_pos, parent_bones |-> parent_bones,
     radius |-> radius, bone_type |-> bone_type]

NoCallYet == [result |-> <<>>, iterations |-> 0]

ArmatureIdle ==
    /\ armature = EmptyDict
    /\ armature_data = EmptyDict
    /\ texts = <<>>
    /\ calls = 0

NormIdle ==
    /\ argument = <<>>
    /\ weights = <<>>
    /\ iteration = 0
    /\ wpc = "idle"
    /\ first = NoCallYet

Init ==
    /\ request \in Requests
    /\ self = PropDefault
    /\ pc = "idle"
    /\ edit_bones = <<>>
    /\ bone_dic = [n \in {} |-> None]
    /\ loc = [n \in {} |-> None]
    /\ frame = NoFrame
    /\ last_call = NoCall
    /\ name_dict = EmptyDict
    /\ walk = <<>>
    /\ NormIdle
    /\ validated = EmptyDict
    /\ violations = {}
    /\ ArmatureIdle

Rig == [edit_bones |-> edit_bones, bone_dic |-> bone_dic]
Bone(i) == edit_bones[i]

\* The rig becomes r, the local `var` is bound to `val` and control moves
\* from `here` to `next`.
Bind(here, next, r, var, val) ==
    /\ pc = here
    /\ pc' = next
    /\ edit_bones' = r.edit_bones
    /\ bone_dic' = r.bone_dic
    /\ loc' = (var :> val) @@ loc
    /\ UNCHANGED <<request, self, name_dict, walk, norm_vars,
                 validated, violations, armature_vars>>

\* var = bone_add(...), called by make_armature itself.
Single(here, next, r, var) ==
    /\ Bind(here, next, r, var, Last(r))
    /\ last_call' = NoCall
    /\ UNCHANGED frame

\* var = x_mirror_bones_add(c...), called by make_armature itself.
Mirrored(here, next, c, var) ==
    /\ pc = here
    /\ \E r \in {x_mirror_bones_add(Rig, c.base_name, c.right_head_pos, c.right_tail_pos,
                                    c.parent_bones, c.radius, c.bone_type)} :
          /\ Bind(here, next, r, var, Pair(r))
          /\ last_call' = c
          /\ UNCHANGED frame

\* The operator is invoked: the properties are assigned, execute calls
\* make_armature, which creates the armature object.
Invoke ==
    /\ pc = "idle"
    /\ self' = AssignProperties(request)
    /\ pc' = "root"
    /\ UNCHANGED <<request, edit_bones, bone_dic, loc, frame, last_call, name_dict, walk, norm_vars,
                 validated, violations, armature_vars>>

AddRoot ==
    Single("root", "Hips",
           bone_add(Rig, "root", Vec(Zero, Zero, Zero), Vec(Zero, Zero, Q(3, 10)),
                    None, DefaultRadius, 0), "root")

AddHips ==
    Single("Hips", "Spine",
           bone_add(Rig, "Hips", Vec(Zero, Zero, body_separate(self)),
                    Vec(Zero, Zero, hips_tall(self)), loc["root"], DefaultRadius, 90),
           "hips")

AddSpine ==
    Single("Spine", "Chest",
           bone_add(Rig, "Spine", Bone(loc["hips"]).tail,
                    z_add(Bone(loc["hips"]).tail, spine_len(self)),
                    loc["hips"], DefaultRadius, -90), "spine")

AddChest ==
    Single("Chest", "Neck",
           bone_add(Rig, "Chest", Bone(loc["spine"]).tail,
                    z_add(Bone(loc["hips"]).tail, backbone_len(self)),
                    loc["spine"], DefaultRadius, -90), "chest")

NeckBase(s) == RSub(RSub(s.tall, head_size(s)), RDiv(neck_len(s), RInt(2)))
NeckTop(s) == RAdd(RSub(s.tall, head_size(s)), RDiv(neck_len(s), RInt(2)))

AddNeck ==
    Single("Neck", "Head",
           bone_add(Rig, "Neck", Vec(Zero, Zero, NeckBase(self)),
                    Vec(Zero, Zero, NeckTop(self)), loc["chest"], DefaultRadius, -90),
           "neck")

AddHead ==
    Single("Head", "eye",
           bone_add(Rig, "Head", Vec(Zero, Zero, NeckTop(self)),
                    Vec(Zero, Zero, self.tall), loc["neck"], DefaultRadius, -90),
           "head")

EyeX(s) == RDiv(RMul(head_size(s), s.head_width_ratio), RInt(5))
EyeZ(s) == RSub(s.tall, RDiv(head_size(s), RInt(2)))

AddEyes ==
    Mirrored("eye", "Upper_Leg",
             MirrorCall("eye", Vec(EyeX(self), Zero, EyeZ(self)),
                        Vec(EyeX(self), self.eye_depth, EyeZ(self)),
                        <<loc["head"], loc["head"]>>, DefaultRadius, "other"),
             "eyes")

LegRadius(s) == RMul(leg_width(s), Q(9, 10))

AddUpperLegs ==
    Mirrored("Upper_Leg", "Lower_Leg",
             MirrorCall("Upper_Leg",
                        x_add(Vec(Zero, Zero, leg_top(self)), leg_width(self)),
                        x_add(z_add(Vec(Zero, Zero, leg_top(self)),
                                    RNeg(leg_bone_length(self))), leg_width(self)),
                        <<loc["hips"], loc["hips"]>>, LegRadius(self), "leg"),
             "upside_legs")

AddLowerLegs ==
    Mirrored("Lower_Leg", "Foot",
             MirrorCall("Lower_Leg", Bone(loc["upside_legs"][1]).tail,
                        Vec(leg_width(self), Zero, RMul(self.tall, Q(5, 100))),
                        loc["upside_legs"], LegRadius(self), "leg"),
             "lower_legs")

AddFoots ==
    Mirrored("Foot", "Toes",
             MirrorCall("Foot", Bone(loc["lower_legs"][1]).tail,
                        Vec(leg_width(self),
                            RMul(RNeg(self.leg_size), RDiv(RInt(2), RInt(3))), Zero),
                        loc["lower_legs"], LegRadius(self), "leg"),
             "foots")

AddToes ==
    Mirrored("Toes", "shoulder",
             MirrorCall("Toes", Bone(loc["foots"][1]).tail,
                        Vec(leg_width(self), RNeg(self.leg_size), Zero),
                        loc["foots"], RMul(leg_width(self), Q(5, 10)), "leg"),
             "toes")

ArmRadius(s) == RMul(hand_size(s), Q(4, 10))
\* shoulder_parent = chest
ShoulderAt == Bone(loc["chest"]).tail

AddShoulders ==
    Mirrored("shoulder", "Arm",
             MirrorCall("shoulder", x_add(ShoulderAt, shoulder_in_pos(self)),
                        x_add(ShoulderAt,
                              RAdd(shoulder_in_pos(self), self.shoulder_width)),
                        <<loc["chest"], loc["chest"]>>, ArmRadius(self), "arm"),
             "shoulders")

AddArms ==
    Mirrored("Arm", "forearm",
             MirrorCall("Arm", Bone(loc["shoulders"][1]).tail,
                        x_add(Bone(loc["shoulders"][1]).tail, arm_length(self)),
                        loc["shoulders"], ArmRadius(self), "arm"),
             "arms")

AddForearms ==
    Mirrored("forearm", "hand",
             MirrorCall("forearm", Bone(loc["arms"][1]).tail,
                        x_add(Bone(loc["arms"][1]).tail, forearm_length(self)),
                        loc["arms"], ArmRadius(self), "arm"),
             "forearms")

AddHands ==
    Mirrored("hand", "finger_thumbs",
             MirrorCall("hand", Bone(loc["forearms"][1]).tail,
                        x_add(Bone(loc["forearms"][1]).tail,
                              RDiv(hand_size(self), RInt(2))),
                        loc["forearms"], RDiv(hand_size(self), RInt(4)), "arm"),
             "hands")

HandHead == Bone(loc["hands"][1]).head
HandTail == Bone(loc["hands"][1]).tail

\* One x_mirror_bones_add call made inside fingers(...).
FingerStep(here, next, c, r) ==
    /\ pc = here
    /\ pc' = next
    /\ edit_bones' = r.edit_bones
    /\ bone_dic' = r.bone_dic
    /\ last_call' = c
    /\ UNCHANGED <<request, self, loc, name_dict, walk, norm_vars,
                 validated, violations, armature_vars>>

FingerRig(c) ==
    {x_mirror_bones_add(Rig, c.base_name, c.right_head_pos, c.right_tail_pos,
                        c.parent_bones, c.radius, c.bone_type)}

\* fingers(finger_name, proximal_pos, finger_len_sum) is called and adds its
\* proximal pair; it will bind its result to the local `var` and return to `next`.
CallFingers(here, next, var, finger_name, proximal_pos, finger_len_sum) ==
  /\ pc = here
  /\ \E c \in {MirrorCall(finger_name \o "_proximal", proximal_pos,
                  x_add(proximal_pos, proximal_finger_len(self, finger_len_sum)),
                  loc["hands"], RDiv(hand_size(self), RInt(18)), "arm")} :
      \E r \in FingerRig(c) :
        /\ FingerStep(here, "fingers.intermediate", c, r)
        /\ frame' = [NoFrame EXCEPT !.finger_name = finger_name,
                                    !.finger_len_sum = finger_len_sum,
                                    !.proximal_bones = Pair(r),
                                    !.var = var, !.next = next]

FingerIntermediate ==
  /\ pc = "fingers.intermediate"
  /\ \E c \in {MirrorCall(frame.finger_name \o "_intermediate",
                  Bone(frame.proximal_bones[1]).tail,
                  x_add(Bone(frame.proximal_bones[1]).tail,
                        intermediate_finger_len(self, frame.finger_len_sum)),
                  frame.proximal_bones, RDiv(hand_size(self), RInt(18)), "arm")} :
      \E r \in FingerRig(c) :
        /\ FingerStep("fingers.intermediate", "fingers.distal", c, r)
        /\ frame' = [frame EXCEPT !.intermediate_bones = Pair(r)]

FingerDistal ==
  /\ pc = "fingers.distal"
  /\ \E c \in {MirrorCall(frame.finger_name \o "_distal",
                  Bone(frame.intermediate_bones[1]).tail,
                  x_add(Bone(frame.intermediate_bones[1]).tail,
                        distal_finger_len(self, frame.finger_len_sum)),
                  frame.intermediate_bones, RDiv(hand_size(self), RInt(18)), "arm")} :
      \E r \in FingerRig(c) :
        /\ FingerStep("fingers.distal", "fingers.nail", c, r)
        /\ frame' = [frame EXCEPT !.distal_bones = Pair(r)]

\* return proximal_bones, intermediate_bones, distal_bones
FingersResult == <<frame.proximal_bones, frame.intermediate_bones, frame.distal_bones>>

\* if self.nail_bone: the nail pair is added; then fingers returns.
FingerNail ==
  /\ pc = "fingers.nail"
  /\ \E c \in {MirrorCall(frame.finger_name \o "_nail",
                  Bone(frame.distal_bones[1]).tail,
                  x_add(Bone(frame.distal_bones[1]).tail,
                        distal_finger_len(self, frame.finger_len_sum)),
                  frame.distal_bones, RDiv(hand_size(self), RInt(20)), "arm")} :
      \E r \in FingerRig(c) :
        /\ self.nail_bone
        /\ Bind("fingers.nail", frame.next, r, frame.var, FingersResult)
        /\ last_call' = c
        /\ frame' = NoFrame

\* Without nail bones fingers returns after the distal pair.
FingersReturn ==
    /\ ~self.nail_bone
    /\ Bind("fingers.nail", frame.next, Rig, frame.var, FingersResult)
    /\ last_call' = NoCall
    /\ frame' = NoFrame

MakeThumbs ==
    CallFingers("finger_thumbs", "thumb_correction", "thumbs", "finger_thumbs",
                y_add(HandHead, RMul(finger_y_offset(self), RInt(3))), HalfHand(self))

ThumbCorrection ==
    /\ pc = "thumb_correction"
    /\ edit_bones' = ThumbCorrected(edit_bones, loc["thumbs"])
    /\ pc' = "finger_index"
    /\ last_call' = NoCall
    /\ UNCHANGED <<request, self, bone_dic, loc, frame, name_dict, walk, norm_vars,
                 validated, violations, armature_vars>>

MakeIndex ==
    CallFingers("finger_index", "finger_middle", "index_fingers", "finger_index",
                y_add(HandTail, RMul(finger_y_offset(self), RInt(3))), IndexLen(self))

MakeMiddle ==
    CallFingers("finger_middle", "finger_ring", "middle_fingers", "finger_middle",
                y_add(HandTail, finger_y_offset(self)), HalfHand(self))

MakeRing ==
    CallFingers("finger_ring", "finger_little", "ring_fingers", "finger_ring",
                y_add(HandTail, RNeg(finger_y_offset(self))), IndexLen(self))

MakeLittle ==
    CallFingers("finger_little", "name_dict", "little_fingers", "finger_little",
                y_add(HandTail, RMul(RNeg(finger_y_offset(self)), RInt(3))),
                LittleLen(self))

\* The name mapping is built and make_armature returns (armature, mapping).
BuildNameDict ==
    /\ pc = "name_dict"
    /\ name_dict' = bone_name_all_dict(edit_bones, loc)
    /\ pc' = "returned"
    /\ last_call' = NoCall
    /\ UNCHANGED <<request, self, edit_bones, bone_dic, loc, frame, walk, norm_vars,
                 validated, violations, armature_vars>>

\* The mappings the validation is applied to: the one make_armature built, it
\* without one required name, and it with one key the schema does not know.
ForeignKeys == {"leftToeBase", "tail"}
Without(mapping, key) == [k \in DOMAIN mapping \ {key} |-> mapping[k]]
With(mapping, key, bone) == (key :> bone) @@ mapping
Mappings(mapping) ==
    {mapping} \cup {Without(mapping, r) : r \in Range(requires)}
              \cup {With(mapping, k, "root") : k \in ForeignKeys}

\* bpy.ops.vrm.model_validate() on the armature make_basic_armature left.
ModelValidate ==
    /\ pc = "returned"
    /\ \E mapping \in Mappings(name_dict) :
            /\ validated' = mapping
            /\ violations' = validate(mapping)
    /\ pc' = "validated"
    /\ UNCHANGED <<request, self, edit_bones, bone_dic, loc, frame, last_call, name_dict,
                   walk, norm_vars, armature_vars>>

Next ==
    \/ Invoke
    \/ AddRoot \/ AddHips \/ AddSpine \/ AddChest \/ AddNeck \/ AddHead
    \/ AddEyes \/ AddUpperLegs \/ AddLowerLegs \/ AddFoots \/ AddToes
    \/ AddShoulders \/ AddArms \/ AddForearms \/ AddHands
    \/ MakeThumbs \/ ThumbCorrection
    \/ MakeIndex \/ MakeMiddle \/ MakeRing \/ MakeLittle
    \/ FingerIntermediate \/ FingerDistal \/ FingerNail \/ FingersReturn
    \/ BuildNameDict
    \/ ModelValidate

Spec == Init /\ [][Next]_vars

(***************************************************************************)
(* A walk up HumanBones.hierarchy from any name of the schema, one parent  *)
(* link at a time, while the name at hand is a key.                        *)
(***************************************************************************)
RigIdle ==
    /\ request = PropDefault
    /\ self = PropDefault
    /\ pc = "idle"
    /\ edit_bones = <<>>
    /\ bone_dic = [n \in {} |-> None]
    /\ loc = [n \in {} |-> None]
    /\ frame = NoFrame
    /\ last_call = NoCall
    /\ name_dict = EmptyDict
    /\ validated = EmptyDict
    /\ violations = {}

rig_vars ==
    <<request, self, pc, edit_bones, bone_dic, loc, frame, last_call, name_dict,
      validated, violations, armature_vars>>

HInit ==
    /\ RigIdle
    /\ ArmatureIdle
    /\ NormIdle
    /\ \E name \in HumanBoneNames \cup DOMAIN hierarchy : walk = <<name>>

\* parent = hierarchy[name]; the walk stops once it has as many names as a
\* walk without repetition can have, plus one.
Parent ==
    /\ walk[Len(walk)] \in DOMAIN hierarchy
    /\ Len(walk) <= Cardinality(HumanBoneNames \cup DOMAIN hierarchy)
    /\ walk' = Append(walk, hierarchy[walk[Len(walk)]])
    /\ UNCHANGED <<rig_vars, norm_vars>>

HNext == Parent

HSpec == HInit /\ [][HNext]_vars

(***************************************************************************)
(* normalize_weights_compatible_with_gl_float(weights), one step at a      *)
(* time, and then applied once more to the weights it returned.            *)
(***************************************************************************)
\* m / 2^k
Fraction(m, k) == m * Pow2[FracBits - k]

\* The weights explored; 33/64 is no packed float, and 33/64 + 31/64 = 1.
SampleWeights ==
    {0, One, Fraction(19, 7), Fraction(9, 4), Fraction(23, 10), Fraction(19, 6),
     Fraction(33, 6), Fraction(31, 6)}

WInit ==
    /\ RigIdle
    /\ ArmatureIdle
    /\ walk = <<>>
    /\ argument \in [1..4 -> SampleWeights]
    /\ weights = argument
    /\ iteration = 0
    /\ wpc = "entry"
    /\ first = NoCallYet

\* if abs(sum(weights) - 1.0) < float_info.epsilon: return weights
ReturnUnchanged ==
    /\ wpc = "entry"
    /\ SumIsOne(weights)
    /\ wpc' = "returned"
    /\ UNCHANGED <<argument, weights, iteration, first, rig_vars, walk>>

\* weights = to_gl_float(weights), and the loop is entered.
SimulateExport ==
    /\ wpc = "entry"
    /\ ~SumIsOne(weights)
    /\ weights' = to_gl_float(weights)
    /\ wpc' = "loop"
    /\ UNCHANGED <<argument, iteration, first, rig_vars, walk>>

\* weights[i] / sum(weights) with sum(weights) == 0: ZeroDivisionError.
RaiseZeroDivision ==
    /\ wpc = "loop"
    /\ iteration < IterationBudget
    /\ sum(weights) = 0
    /\ wpc' = "raised"
    /\ UNCHANGED <<argument, weights, iteration, first, rig_vars, walk>>

\* A pass of the loop that takes next_weights.
Adopt ==
    /\ wpc = "loop"
    /\ iteration < IterationBudget
    /\ sum(weights) # 0
    /\ \E n \in {next_weights(weights)} :
        /\ Improves(weights, n)
        /\ weights' = n
    /\ iteration' = iteration + 1
    /\ UNCHANGED <<argument, wpc, first, rig_vars, walk>>

\* A pass of the loop that ends it: break, return weights.
Break ==
    /\ wpc = "loop"
    /\ iteration < IterationBudget
    /\ sum(weights) # 0
    /\ ~Improves(weights, next_weights(weights))
    /\ wpc' = "returned"
    /\ UNCHANGED <<argument, weights, iteration, first, rig_vars, walk>>

\* range(10) is used up: return weights.
Exhaust ==
    /\ wpc = "loop"
    /\ iteration = IterationBudget
    /\ wpc' = "returned"
    /\ UNCHANGED <<argument, weights, iteration, first, rig_vars, walk>>

\* The caller applies the function to the weights it returned.
Reapply ==
    /\ wpc = "returned"
    /\ first = NoCallYet
    /\ first' = [result |-> weights, iterations |-> iteration]
    /\ argument' = weights
    /\ iteration' = 0
    /\ wpc' = "entry"
    /\ UNCHANGED <<weights, rig_vars, walk>>

WNext ==
    \/ ReturnUnchanged \/ SimulateExport \/ RaiseZeroDivision
    \/ Adopt \/ Break \/ Exhaust \/ Reapply

WSpec == WInit /\ [][WNext]_vars

(***************************************************************************)
(* bone_add applied to any rig: bones added one after the other under      *)
(* names that may be registered already.                                   *)
(***************************************************************************)
MaxBones == 4

BoneNames == {"Hips", "Spine"}

BInit ==
    /\ RigIdle
    /\ ArmatureIdle
    /\ NormIdle
    /\ walk = <<>>

\* bone_add(name, (0, 0, 0), (0, 0, 0.3), parent_bone)
AddBone ==
    /\ Len(edit_bones) < MaxBones
    /\ \E name \in BoneNames, parent_bone \in {None} \cup DOMAIN edit_bones :
         \E r \in {bone_add(Rig, name, ZeroVec, Vec(Zero, Zero, Q(3, 10)),
                            parent_bone, DefaultRadius, 0)} :
            /\ edit_bones' = r.edit_bones
            /\ bone_dic' = r.bone_dic
    /\ UNCHANGED <<request, self, pc, loc, frame, last_call, name_dict, walk, norm_vars,
                 validated, violations, armature_vars>>

BNext == AddBone

BSpec == BInit /\ [][BNext]_vars

(***************************************************************************)
(* setup_as_vrm and make_extension_setting_and_metas, lines 461-509.  The  *)
(* armature object and armature.data each carry custom properties; a text  *)
(* block is a record of its name and what was written to it.               *)
(***************************************************************************)
ArmatureName == "skeleton"

\* The block names and the class attribute written to each, in call order.
Blocks ==
    <<<<"humanoid_params", "humanoid_params">>,
      <<"firstPerson_params", "first_person_params">>,
      <<"blendshape_group", "blendshape_group">>,
      <<"spring_bone", "spring_bone_prams">>>>

vrm_metas ==
    <<"version", "author", "contactInformation", "reference", "title",
      "otherPermissionUrl", "otherLicenseUrl">>

required_vrm_metas ==
    <<<<"allowedUserName", "OnlyAuthor">>, <<"violentUssageName", "Disallow">>,
      <<"sexualUssageName", "Disallow">>, <<"commercialUssageName", "Disallow">>,
      <<"licenseName", "Redistribution_Prohibited">>>>

\* bpy.data.texts.new(name=...) followed by text_block.write(json.dumps(value)):
\* the new block gets the name asked for, or name.001, ... when it is taken.
NewText(name, value, blocks) ==
    Append(blocks, [name |-> UniqueName(name, blocks), body |-> value])

\* m[key] = value when key is not in m.
SetAbsent(m, key, value) == IF key \in DOMAIN m THEN m ELSE (key :> value) @@ m

\* write_textblock_and_assign_to_armature mutated: the property is assigned
\* whether or not the armature has it.
write_textblock_and_assign_always(st, block_name, value) ==
    LET written == NewText(ArmatureName \o "_" \o block_name \o ".json", value, st.texts)
        name == written[Len(written)].name
    IN  [armature |-> (block_name :> name) @@ [k \in DOMAIN st.armature \ {block_name} |->
                                                  st.armature[k]],
         texts |-> written]

\* write_textblock_and_assign_to_armature(block_name, value) on the state st
\* of the armature's properties and bpy.data.texts.
write_textblock_and_assign_to_armature(st, block_name, value) ==
    LET written == NewText(ArmatureName \o "_" \o block_name \o ".json", value, st.texts)
    IN  [armature |-> SetAbsent(st.armature, block_name, written[Len(written)].name),
         texts |-> written]

\* The four write_textblock_and_assign_to_armature calls, first k of them.
RECURSIVE WriteBlocks(_, _)
WriteBlocks(st, k) ==
    IF k = 0 THEN st
    ELSE write_textblock_and_assign_to_armature(WriteBlocks(st, k - 1),
                                                Blocks[k][1], Blocks[k][2])

\* for v in vrm_metas: if v not in armature: armature[v] = "undefined"
RECURSIVE WriteMetas(_, _)
WriteMetas(m, k) ==
    IF k = 0 THEN m ELSE SetAbsent(WriteMetas(m, k - 1), vrm_metas[k], "undefined")

\* for k, v in required_vrm_metas.items(): if k not in armature: armature[k] = v
RECURSIVE WriteRequiredMetas(_, _)
WriteRequiredMetas(m, k) ==
    IF k = 0 THEN m
    ELSE SetAbsent(WriteRequiredMetas(m, k - 1),
                   required_vrm_metas[k][1], required_vrm_metas[k][2])

make_extension_setting_and_metas(st) ==
    LET blocks == WriteBlocks(st, Len(Blocks))
    IN  [armature |-> WriteRequiredMetas(WriteMetas(blocks.armature, Len(vrm_metas)),
                                         Len(required_vrm_metas)),
         texts |-> blocks.texts]

\* for vrm_bone_name, blender_bone_name in compare_dict.items():
\*     armature.data[vrm_bone_name] = blender_bone_name
AssignAll(data, compare_dict) ==
    [k \in DOMAIN data \cup DOMAIN compare_dict |->
        IF k \in DOMAIN compare_dict THEN compare_dict[k] ELSE data[k]]

MaxCalls == 2

\* The properties an armature may hold beforehand: any of these keys, set by
\* the user, and the text blocks that may exist beforehand.
SampleKeys ==
    {"humanoid_params", "spring_bone", "version", "title", "allowedUserName",
     "licenseName"}
SampleTexts ==
    {<<>>, <<[name |-> "skeleton_humanoid_params.json", body |-> "notes"]>>}
SampleDicts ==
    {("hips" :> "Hips") @@ ("head" :> "Head"), ("hips" :> "Hips.001")}

MInit ==
    /\ RigIdle
    /\ NormIdle
    /\ walk = <<>>
    /\ \E present \in SUBSET SampleKeys : armature = [k \in present |-> "custom"]
    /\ armature_data = EmptyDict
    /\ texts \in SampleTexts
    /\ calls = 0

\* ICYP_OT_MAKE_ARMATURE.make_extension_setting_and_metas(armature)
MakeExtensionSettingAndMetas ==
    /\ calls < MaxCalls
    /\ \E st \in {make_extension_setting_and_metas([armature |-> armature, texts |-> texts])} :
          /\ armature' = st.armature
          /\ texts' = st.texts
    /\ calls' = calls + 1
    /\ UNCHANGED <<request, self, pc, edit_bones, bone_dic, loc, frame, last_call, name_dict,
                   validated, violations, walk, norm_vars, armature_data>>

\* self.setup_as_vrm(armature, compare_dict)
SetupAsVrm ==
    /\ calls < MaxCalls
    /\ \E compare_dict \in SampleDicts :
          armature_data' = AssignAll(armature_data, compare_dict)
    /\ \E st \in {make_extension_setting_and_metas([armature |-> armature, texts |-> texts])} :
          /\ armature' = st.armature
          /\ texts' = st.texts
    /\ calls' = calls + 1
    /\ UNCHANGED <<request, self, pc, edit_bones, bone_dic, loc, frame, last_call, name_dict,
                   validated, violations, walk, norm_vars>>

MNext == MakeExtensionSettingAndMetas \/ SetupAsVrm

MSpec == MInit /\ [][MNext]_vars

(***************************************************************************)
(* Properties of the rig.                                                  *)
(***************************************************************************)
RECURSIVE AncestorPath(_, _)
\* The bones met following parent links from bone i, at most fuel links.
AncestorPath(i, fuel) ==
    IF edit_bones[i].parent = None \/ fuel = 0 THEN <<i>>
    ELSE <<i>> \o AncestorPath(edit_bones[i].parent, fuel - 1)

NoRepetition(seq) == \A i, j \in DOMAIN seq : seq[i] = seq[j] => i = j

\* C1: at every point of make_armature the rig is a single tree: 'root' is the
\* only bone without a parent, every other bone has one parent, added before
\* it, and the parent links from any bone reach 'root' without meeting a bone
\* twice.
C1_SingleTree ==
    \A i \in DOMAIN edit_bones :
        /\ (edit_bones[i].parent = None) <=> (edit_bones[i].name = "root")
        /\ (edit_bones[i].name = "root") <=> (i = 1)
        /\ i > 1 => edit_bones[i].parent \in 1..(i - 1)
        /\ LET path == AncestorPath(i, Len(edit_bones))
           IN  /\ edit_bones[path[Len(path)]].name = "root"
               /\ NoRepetition(path)

C1_Witness ==
    /\ pc = "returned"
    /\ self.nail_bone
    /\ Len(edit_bones) = 64
    /\ Len(AncestorPath(64, 64)) = 12

NegatedX(v) == <<RSub(Zero, v[1]), v[2], v[3]>>

\* The extent of bone b along each axis, without its sign; two bones with
\* the same extents have the same head-to-tail length.
Extents(b) ==
    [k \in 1..3 |->
        IF RSub(b.tail[k], b.head[k])[1] < 0 THEN RSub(b.head[k], b.tail[k])
        ELSE RSub(b.tail[k], b.head[k])]

CreatedLeft == edit_bones[Len(edit_bones) - 1]
CreatedRight == edit_bones[Len(edit_bones)]

\* C2: when x_mirror_bones_add returns, the base_L bone has the head and tail
\* passed in, the base_R bone has them with x negated and y, z unchanged, and
\* the two bones have the same length.
C2_MirroredAtCreation ==
    last_call # NoCall =>
        /\ CreatedLeft.name = last_call.base_name \o "_L"
        /\ CreatedRight.name = last_call.base_name \o "_R"
        /\ CreatedLeft.head = last_call.right_head_pos
        /\ CreatedLeft.tail = last_call.right_tail_pos
        /\ CreatedRight.head = NegatedX(CreatedLeft.head)
        /\ CreatedRight.tail = NegatedX(CreatedLeft.tail)
        /\ Extents(CreatedLeft) = Extents(CreatedRight)

C2_Witness ==
    /\ last_call.base_name = "Lower_Leg"
    /\ RLt(Zero, CreatedLeft.head[1])
    /\ RLt(CreatedRight.head[1], Zero)
    /\ RLt(Zero, Extents(CreatedRight)[3])

\* C3: when x_mirror_bones_add returns, the rolls of the pair follow the bone
\* kind: 'arm' left 0 and right 180 degrees, 'leg' 90 and 90, any other kind 0
\* and 0.
C3_RollByKind ==
    last_call # NoCall =>
        /\ last_call.bone_type = "arm" =>
               CreatedLeft.roll = 0 /\ CreatedRight.roll = 180
        /\ last_call.bone_type = "leg" =>
               CreatedLeft.roll = 90 /\ CreatedRight.roll = 90
        /\ last_call.bone_type \notin {"arm", "leg"} =>
               CreatedLeft.roll = 0 /\ CreatedRight.roll = 0

C3_Witness ==
    /\ last_call.bone_type = "arm"
    /\ last_call.base_name = "forearm"
    /\ CreatedLeft.name = "forearm_L"
    /\ CreatedRight.roll = 180

\* C4: the name mapping make_armature returns has an entry for every name of
\* HumanBones.requires, and each of its keys is in requires or defines.
C4_MappingWithinSchema ==
    pc = "returned" =>
        /\ Range(requires) \subseteq DOMAIN name_dict
        /\ DOMAIN name_dict \subseteq HumanBoneNames

C4_Witness ==
    /\ pc = "returned"
    /\ self.nail_bone
    /\ "leftThumbDistal" \in DOMAIN name_dict
    /\ "leftToes" \in DOMAIN name_dict

Keys(items) == {items[i][1] : i \in DOMAIN items}
Occurrences(items, key) == Cardinality({i \in DOMAIN items : items[i][1] = key})

\* C5: HumanBones.hierarchy is a tree rooted at 'hips' over the names of
\* requires and defines: 'hips' is no key, every other name is a key once,
\* every parent is a name of the schema, and the walk up from any name meets
\* no name twice and stops only at 'hips'.
C5_HierarchyTree ==
    /\ "hips" \notin Keys(hierarchy_items)
    /\ Keys(hierarchy_items) = HumanBoneNames \ {"hips"}
    /\ \A name \in HumanBoneNames \ {"hips"} : Occurrences(hierarchy_items, name) = 1
    /\ \A i \in DOMAIN hierarchy_items : hierarchy_items[i][2] \in HumanBoneNames
    /\ NoRepetition(walk)
    /\ walk[Len(walk)] \notin DOMAIN hierarchy => walk[Len(walk)] = "hips"

C5_Witness ==
    /\ walk[1] = "leftLittleDistal"
    /\ Len(walk) = 10
    /\ walk[Len(walk)] = "hips"

XExtent(i) == RSub(edit_bones[i].tail[1], edit_bones[i].head[1])

\* C6: once fingers(name, pos, finger_len_sum) has made its three pairs, their
\* lengths are finger_len_sum*k, finger_len_sum*k*r1 and finger_len_sum*k*r1*r2
\* with k = 1/(r1*r2 + r1 + 1), r1 and r2 in (0, 1], and they sum to
\* finger_len_sum; the nail segment is made afterwards and is not part of it.
C6_FingerLengthsSum ==
    pc = "fingers.nail" =>
        LET r1 == self.finger_1_2_ratio
            r2 == self.finger_2_3_ratio
            k == RDiv(RInt(1), RAdd(RAdd(RMul(r1, r2), r1), RInt(1)))
            total == frame.finger_len_sum
            proximal == XExtent(frame.proximal_bones[1])
            intermediate == XExtent(frame.intermediate_bones[1])
            distal == XExtent(frame.distal_bones[1])
        IN  /\ RLt(Zero, r1) /\ RLe(r1, RInt(1))
            /\ RLt(Zero, r2) /\ RLe(r2, RInt(1))
            /\ proximal = RMul(total, k)
            /\ intermediate = RMul(RMul(total, k), r1)
            /\ distal = RMul(RMul(RMul(total, k), r1), r2)
            /\ RAdd(RAdd(proximal, intermediate), distal) = total
            /\ Len(edit_bones) = frame.distal_bones[2]

C6_Witness ==
    /\ pc = "fingers.nail"
    /\ frame.finger_name = "finger_index"
    /\ self.finger_1_2_ratio = Q(3, 4)
    /\ self.finger_2_3_ratio = Q(1, 2)
    /\ RLt(Zero, XExtent(frame.distal_bones[1]))

OutOfRange(p) ==
    \/ RLt(request[p], PropMin[p])
    \/ p \in DOMAIN PropMax /\ RLt(PropMax[p], request[p])

Finished == wpc \in {"returned", "raised"}

\* The sum of the weights once each is rounded to a packed float, as a real
\* number, differs from 1 by less than the gap between 1 and the next packed
\* float.
PackedSumIsOne(w) ==
    LET packed == to_gl_float(w)
    IN  Abs(One - (packed[1] + packed[2] + packed[3] + packed[4]))
            < Pow2[FracBits + 1 - FloatBits]

\* C7: for any weights the function ends, within its 10 passes, by returning
\* weights whose sum, each rounded to a packed float, is 1 within the packed
\* float epsilon.
C7_PackedSumIsOne ==
    Finished => (wpc = "returned" /\ iteration <= IterationBudget /\ PackedSumIsOne(weights))

\* C8 as stated: applying the function to its own result returns that result,
\* whatever ended the first call.
C8_Idempotent ==
    (first # NoCallYet /\ Finished) => (wpc = "returned" /\ weights = first.result)

\* C8 amended: applying the function to its own result returns that result
\* whenever the first call returned before using up its 10 passes (by the
\* early return or by a pass that took no new weights).
C8_IdempotentUnlessExhausted ==
    (first # NoCallYet /\ Finished /\ first.iterations < IterationBudget) =>
        (wpc = "returned" /\ weights = first.result)

C8_Witness ==
    /\ first # NoCallYet
    /\ wpc = "returned"
    /\ first.iterations \in 2..(IterationBudget - 1)
    /\ weights = first.result
    /\ first.result # <<0, 0, 0, One>>

\* C9: the function has no error outcome: it never raises.
C9_NeverRaises == wpc # "raised"

C12_NoDegenerateRig ==
    pc = "returned" =>
        /\ RLt(Zero, backbone_len(self))
        /\ RLt(Zero, leg_bone_length(self))
        /\ RLt(Zero, body_separate(self))
        /\ RLt(Bone(loc["spine"]).head[3], Bone(loc["spine"]).tail[3])
        /\ RLt(Bone(loc["chest"]).head[3], Bone(loc["chest"]).tail[3])
        /\ RLt(Bone(loc["upside_legs"][1]).tail[3], Bone(loc["upside_legs"][1]).head[3])

SquaredLength(b, u) ==
    LET dr == [a \in 1..3 |-> RDiv(RSub(b.tail[a], b.head[a]), u)]
        ds == [a \in 1..3 |-> RDiv(RSub(b.tail_r2[a], b.head_r2[a]), u)]
        sq(a) == RAdd(RMul(dr[a], dr[a]), RMul(RInt(2), RMul(ds[a], ds[a])))
        cross(a) == RMul(RInt(2), RMul(dr[a], ds[a]))
    IN  [r |-> RAdd(sq(1), RAdd(sq(2), sq(3))),
         s |-> RAdd(cross(1), RAdd(cross(2), cross(3)))]

\* The extent of bone i along x before the correction, the unit its length is
\* measured in.
ThumbUnit(i) == RSub(Bone(i).tail[1], Bone(i).head[1])

\* C14: the thumb correction is rigid.  The step that corrects the thumbs
\* leaves the head-to-tail length of each of the three thumb segments on each
\* side as it was, and sets the roll of the left ones to 0 and of the right
\* ones to 180 degrees.
C14_ThumbCorrectionRigid ==
    [][pc = "thumb_correction" =>
        \A j \in 1..3, n \in 1..2 :
            /\ ThumbUnit(loc["thumbs"][j][n]) # Zero
            /\ SquaredLength(edit_bones'[loc["thumbs"][j][n]], ThumbUnit(loc["thumbs"][j][n]))
                = SquaredLength(edit_bones[loc["thumbs"][j][n]], ThumbUnit(loc["thumbs"][j][n]))
            /\ edit_bones'[loc["thumbs"][j][n]].roll = <<0, 180>>[n]]_vars

C14_Witness ==
    /\ pc = "finger_index"
    /\ Bone(loc["thumbs"][3][1]).tail_r2 # ZeroVec
    /\ Bone(loc["thumbs"][3][1]).tail_r2[1] = RNeg(Bone(loc["thumbs"][3][2]).tail_r2[1])
    /\ Bone(loc["thumbs"][3][2]).roll = 180
    /\ Bone(loc["thumbs"][3][2]).tail_r2 # Bone(loc["thumbs"][3][2]).head_r2

\* C15: a call given weights whose sum is 1 within epsilon returns those very
\* weights, not rounded to packed floats; every other call leaves its
\* argument alone and returns new weights, which have been through
\* to_gl_float.
C15_EarlyReturnElseNewTuple ==
    (Finished /\ first = NoCallYet) =>
        /\ SumIsOne(argument) => (wpc = "returned" /\ weights = argument /\ iteration = 0)
        /\ ~SumIsOne(argument) => (wpc = "returned" /\ to_gl_float(weights) = weights)

\* The part of C15 that the code keeps: the early return hands back the
\* argument as it is, also when it holds values that are no packed floats.
C15_EarlyReturnIsArgument ==
    (Finished /\ first = NoCallYet /\ SumIsOne(argument)) =>
        (wpc = "returned" /\ weights = argument /\ iteration = 0)

C15_UnroundedReturned ==
    /\ wpc = "returned"
    /\ first = NoCallYet
    /\ SumIsOne(argument)
    /\ weights = argument
    /\ to_gl_float(argument) # argument

\* C16: the refinement loop makes at most 10 passes.  A pass that changes the
\* weights is taken only when the current sum error is at least epsilon, and
\* the new weights have a strictly smaller sum error; a pass that does not
\* change them ends the loop; and the weights the loop returns have a sum
\* error no larger than that of the argument rounded to packed floats.
C16_LoopDescends ==
    [][wpc = "loop" =>
        /\ iteration' <= IterationBudget
        /\ (weights' # weights \/ iteration' # iteration) =>
              /\ wpc' = "loop"
              /\ iteration' = iteration + 1
              /\ error(weights) >= epsilon
              /\ error(weights') < error(weights)
        /\ (weights' = weights /\ iteration' = iteration) => wpc' # "loop"
        /\ wpc' = "returned" => error(weights') <= error(to_gl_float(argument))]_vars

C16_Witness ==
    /\ wpc = "returned"
    /\ first = NoCallYet
    /\ iteration \in 2..(IterationBudget - 1)
    /\ error(weights) < error(to_gl_float(argument))
    /\ error(weights) >= epsilon

\* The length the claim gives for the upper arm, from the properties alone.
UpperArmLength ==
    RMul(RMul(RDiv(self.tall, self.head_ratio),
              RSub(self.head_ratio, RInt(2))),
         RDiv(self.arm_length_ratio, RInt(4)))

\* C17: once the forearms are added, the upper arm is as long as
\* head_size * (1 * (1 - (head_ratio - 6) / 2) + 1.5 * ((head_ratio - 6) / 2))
\* * arm_length_ratio, which is tall / head_ratio * (head_ratio - 2) / 4
\* * arm_length_ratio, and the forearm is as long as the larger of that length
\* less half the hand size and 0.8 times that length: never shorter than 0.8
\* times the upper arm and never longer than the upper arm.
C17_ForearmLength ==
    "forearms" \in DOMAIN loc =>
        \A n \in 1..2 :
            LET arm == Bone(loc["arms"][n])
                forearm == Bone(loc["forearms"][n])
                arm_len == RSub(arm.tail[1], arm.head[1])
                forearm_len == RSub(forearm.tail[1], forearm.head[1])
                sign == IF n = 1 THEN 1 ELSE -1
                less_hand == RSub(UpperArmLength,
                                  RMul(RMul(RDiv(self.tall, self.head_ratio), Q(3, 8)),
                                       self.hand_ratio))
                floor == RMul(UpperArmLength, Q(4, 5))
            IN  /\ arm_len = RMul(RInt(sign), UpperArmLength)
                /\ forearm_len = RMul(RInt(sign), IF RLt(less_hand, floor) THEN floor ELSE less_hand)
                /\ RLe(floor, RMul(RInt(sign), forearm_len))
                /\ RLe(RMul(RInt(sign), forearm_len), UpperArmLength)
                /\ forearm.head = arm.tail /\ forearm.tail[2] = forearm.head[2]
                /\ forearm.tail[3] = forearm.head[3]

\* The floor decides the forearm: the hand is large for the arm.
C17_Witness ==
    /\ pc = "hand"
    /\ RLt(RSub(arm_length(self), RDiv(hand_size(self), RInt(2))),
           RMul(arm_length(self), Q(4, 5)))
    /\ RSub(Bone(loc["forearms"][1]).tail[1], Bone(loc["forearms"][1]).head[1])
         = RMul(UpperArmLength, Q(4, 5))

\* The other case is reached too: the hand is small for the arm.
C17_Unfloored ==
    /\ pc = "hand"
    /\ RLt(RMul(arm_length(self), Q(4, 5)),
           RSub(arm_length(self), RDiv(hand_size(self), RInt(2))))

\* The bone of the rig with the given name.
BoneNamed(name) == Bone(CHOOSE i \in DOMAIN edit_bones : edit_bones[i].name = name)

\* The name of the bone that is the parent of the bone with the given name.
ParentName(name) == Bone(BoneNamed(name).parent).name

\* C18: when make_armature returns, the parent links of the rig are those of
\* the schema under the name mapping.  For every mapped schema name but "hips", the parent of its bone is
\* the bone of its nearest ancestor in HumanBones.hierarchy that is mapped
\* (for neck that is chest, upperChest not being mapped); the parent of the
\* bone of "hips" is "root", which no schema name maps to.
C18_ParentsFollowSchema ==
    pc = "returned" =>
        /\ \A s \in DOMAIN name_dict \ {"hips"} :
              /\ MappedAncestor(s, DOMAIN name_dict, Depth) \in DOMAIN name_dict
              /\ ParentName(name_dict[s])
                    = name_dict[MappedAncestor(s, DOMAIN name_dict, Depth)]
        /\ ParentName(name_dict["hips"]) = "root"
        /\ \A s \in DOMAIN name_dict : name_dict[s] # "root"

C18_Witness ==
    /\ pc = "returned"
    /\ hierarchy["neck"] = "upperChest"
    /\ "upperChest" \notin DOMAIN name_dict
    /\ ParentName(name_dict["neck"]) = name_dict["chest"]
    /\ ParentName(name_dict["leftIndexDistal"]) = name_dict["leftIndexIntermediate"]

\* The base names make_armature passes to x_mirror_bones_add, the names of
\* the bones it adds with bone_add, and the bilateral roles of the mapping.
MirroredBases ==
    {"eye", "Upper_Leg", "Lower_Leg", "Foot", "Toes", "shoulder", "Arm", "forearm", "hand"}
    \cup {finger \o segment :
            finger \in {"finger_thumbs", "finger_index", "finger_middle", "finger_ring",
                        "finger_little"},
            segment \in {"_proximal", "_intermediate", "_distal", "_nail"}}
CentreNames == {"root", "Hips", "Spine", "Chest", "Neck", "Head"}
Roles ==
    {BodyParts[i][1] : i \in DOMAIN BodyParts}
    \cup {FingerNames[i][1] \o Positions[j] : i \in DOMAIN FingerNames, j \in DOMAIN Positions}

\* The bone named name hangs on the given side: its parent is the bone of that
\* side of some pair, or a centre bone.
HangsOnSide(name, suffix) ==
    \/ ParentName(name) \in CentreNames
    \/ \E b \in MirroredBases : ParentName(name) = b \o suffix

\* C19: the name mapping make_armature returns is side-consistent.  Every bilateral role X has the
\* keys "left" + X and "right" + X, mapped to the _L and the _R bone of one
\* mirrored pair; every other key is a centre name mapped to a centre bone;
\* and in the rig the parent of every _L bone is an _L bone or a centre bone,
\* the parent of its _R twin being the _R bone of the same pair or that same
\* centre bone.
C19_SideConsistent ==
    pc = "returned" =>
        /\ \A X \in Roles :
              /\ {"left" \o X, "right" \o X} \subseteq DOMAIN name_dict
              /\ \E b \in MirroredBases :
                    /\ name_dict["left" \o X] = b \o "_L"
                    /\ name_dict["right" \o X] = b \o "_R"
        /\ \A s \in DOMAIN name_dict :
              \/ \E X \in Roles : s \in {"left" \o X, "right" \o X}
              \/ s \in Range(center_req) /\ name_dict[s] \in CentreNames
        /\ \A i \in DOMAIN edit_bones :
              \/ Bone(i).name \in CentreNames
              \/ \E b \in MirroredBases : Bone(i).name \in {b \o "_L", b \o "_R"}
        /\ \A b \in MirroredBases :
              (\E i \in DOMAIN edit_bones : Bone(i).name = b \o "_L") =>
                  /\ HangsOnSide(b \o "_L", "_L")
                  /\ HangsOnSide(b \o "_R", "_R")
                  /\ \/ /\ ParentName(b \o "_L") \in CentreNames
                        /\ ParentName(b \o "_R") = ParentName(b \o "_L")
                     \/ \E b2 \in MirroredBases :
                           /\ ParentName(b \o "_L") = b2 \o "_L"
                           /\ ParentName(b \o "_R") = b2 \o "_R"

C19_Witness ==
    /\ pc = "returned"
    /\ name_dict["leftLowerArm"] = "forearm_L"
    /\ name_dict["rightLowerArm"] = "forearm_R"
    /\ ParentName("forearm_R") = "Arm_R"
    /\ self.nail_bone
    /\ ParentName("finger_little_nail_L") = "finger_little_distal_L"

\* The names of the finger bones that have a finger segment as parent.
FingerChildNames ==
    {finger \o segment \o side :
        finger \in {"finger_thumbs", "finger_index", "finger_middle", "finger_ring",
                    "finger_little"},
        segment \in {"_intermediate", "_distal", "_nail"}, side \in {"_L", "_R"}}

\* Bone i starts where its parent ends.
Continues(i) ==
    /\ Bone(i).head = Bone(Bone(i).parent).tail
    /\ Bone(i).head_r2 = Bone(Bone(i).parent).tail_r2

\* C20: when make_armature returns, every finger chain of both hands is
\* continuous: each intermediate, distal and nail bone, of the thumbs too,
\* has its head at the tail of its parent segment.
C20_FingerChainsContinuous ==
    pc = "returned" =>
        \A i \in DOMAIN edit_bones : Bone(i).name \in FingerChildNames => Continues(i)

\* The part of C20 that the code keeps: the chains are continuous up to the
\* distal bones, and all of them but the thumbs up to the nail bones.
C20_ContinuousButThumbNails ==
    pc = "returned" =>
        \A i \in DOMAIN edit_bones :
            (/\ Bone(i).name \in FingerChildNames
             /\ Bone(i).name \notin {"finger_thumbs_nail_L", "finger_thumbs_nail_R"})
                => Continues(i)

C20_ThumbNailDetached ==
    /\ pc = "returned"
    /\ self.nail_bone
    /\ ~Continues(CHOOSE i \in DOMAIN edit_bones : Bone(i).name = "finger_thumbs_nail_L")
    /\ Bone(BoneNamed("finger_thumbs_nail_L").parent).name = "finger_thumbs_distal_L"

\* The keys make_extension_setting_and_metas looks after: the four block
\* names, the seven optional metas and the five required metas.
BlockKeys == {Blocks[i][1] : i \in DOMAIN Blocks}
PropertyKeys ==
    BlockKeys \cup Range(vrm_metas)
              \cup {required_vrm_metas[i][1] : i \in DOMAIN required_vrm_metas}

\* value is the default of key in a call that turned the text blocks `before`
\* into `after`: "undefined" for an optional meta, the listed value for a
\* required meta, and for a block name the name of a text block the call
\* created, which holds that block's payload.
IsDefault(key, value, before, after) ==
    \/ key \in Range(vrm_metas) /\ value = "undefined"
    \/ \E i \in DOMAIN required_vrm_metas : required_vrm_metas[i] = <<key, value>>
    \/ \E i \in DOMAIN Blocks, t \in (Len(before) + 1)..Len(after) :
          /\ Blocks[i][1] = key
          /\ after[t] = [name |-> value, body |-> Blocks[i][2]]
          /\ \A u \in DOMAIN before : before[u].name # value

\* C21: a call of make_extension_setting_and_metas only adds the armature
\* properties that are absent.  Every property the armature has keeps its
\* value, each of the 16 keys it lacks gets its default, no other key
\* appears, and a call that follows an earlier call leaves the armature's
\* properties as they are.
C21_OnlyAbsentKeysAdded ==
    [][calls' = calls + 1 =>
        /\ \A k \in DOMAIN armature : k \in DOMAIN armature' /\ armature'[k] = armature[k]
        /\ DOMAIN armature' = DOMAIN armature \cup PropertyKeys
        /\ \A k \in PropertyKeys \ DOMAIN armature :
              IsDefault(k, armature'[k], texts, texts')
        /\ calls >= 1 => armature' = armature]_vars

C21_Witness ==
    /\ calls = 2
    /\ Cardinality(DOMAIN armature) = 16
    /\ armature["humanoid_params"] = "custom"
    /\ armature["firstPerson_params"] = "skeleton_firstPerson_params.json"
    /\ armature["version"] = "undefined"
    /\ armature["licenseName"] = "Redistribution_Prohibited"
    /\ "hips" \in DOMAIN armature_data
    /\ Len(texts) = 9
====
